---- MODULE Spec2Model ----
(***************************************************************************)
(* Model of the grouped call-pair pipeline of sparser                      *)
(* (src/src/bin/match_call.rs, src/src/lib.rs).                            *)
(*                                                                         *)
(* Strings whose characters matter (function names, code, tokens) are      *)
(* sequences of one-character strings; repo identifiers are only compared  *)
(* for equality and are TLA+ strings.                                      *)
(*                                                                         *)
(* SpecGrouper : one per-file reader task of read_input_data.  emitted     *)
(*               records every group the task hands to tx.send, in order;  *)
(*               the queue behind the sender is not part of it.            *)
(* SpecPairs   : one worker of run_preprocessing handling one group        *)
(*               (process_grouped_samples, then the masking map).          *)
(* SpecMask    : the same worker on two-record groups whose caller code    *)
(*               ranges over all short texts.                              *)
(* SpecWide    : the same worker on groups of up to six distinct names.    *)
(* SpecPipeline: a whole run: read_input_data, its reader tasks, the       *)
(*               channel and run_preprocessing, with the parse failure of  *)
(*               a group and the exit of the process.                      *)
(* SpecQueue   : a run without failure on one file that holds more groups  *)
(*               than the channel buffers.                                 *)
(* SpecLive    : the runs without failure under fair scheduling.           *)
(* SpecLocks   : the runs without failure with the steps that take and     *)
(*               drop the PROGRESS mutex, under fair scheduling.           *)
(* SpecLegacy  : process_func_call_comm of the single-file pipeline        *)
(*               (src/src/main.rs) on one source file.                     *)
(* SpecCaptures: the capture loop of find_function_calls on capture        *)
(*               sequences that also hold labels the loop does not know.   *)
(***************************************************************************)
EXTENDS Integers, Sequences, FiniteSets, Bags, TLC

VARIABLES
    lines,                      \* the lines of the input file (read_lines)
    pos,                        \* number of lines consumed by the `for line in lines` loop
    sample_group_identifier,    \* match_call.rs:173
    cur_group_samples,          \* match_call.rs:174
    emitted,                    \* groups handed to tx.send, in order
    rpc,                        \* position of the reader task: "idle" | "lines" | "done"
    sample_group,               \* the group a worker took from the queue (match_call.rs:96)
    samples,                    \* result of process_grouped_samples (match_call.rs:97)
    out,                        \* the CallJsonSamples built from samples (match_call.rs:98)
    wpc,                        \* position of the worker: "idle" | "process" | "mask" | "done"
    paths,                      \* the input files found by WalkDir (match_call.rs:150-157)
    num_threads,                \* args.threads (match_call.rs:71)
    input_threads,              \* the per-file reader tasks (match_call.rs:161, 167)
    input_th,                   \* the read_input_data task (match_call.rs:83)
    queue,                      \* the groups buffered in mpsc::channel(10) (match_call.rs:81)
    rx_done,                    \* rx.recv() has returned None (match_call.rs:91)
    in_progress,                \* groups held by buffer_unordered (match_call.rs:137)
    writing,                    \* records of the block append_jsonl_to_file still has to write
    file,                       \* the records appended to the output file (match_call.rs:86)
    blocks,                     \* history: the bag of groups processed, with their records
    dropped,                    \* history: groups whose send failed
    failed,                     \* history: groups whose processing panicked
    mpc,                        \* position of run_preprocessing
    m_captures,                 \* the captures find_function_calls iterates (match_call.rs:344-345)
    func_validate,              \* the names func_validate_fn accepts (match_call.rs:328)
    callees_found,              \* the HashSet find_function_calls returns (match_call.rs:363)
    stdout,                     \* the capture names reported by println! (match_call.rs:357)
    fpc,                        \* position of find_function_calls: "idle" | "scan" | "returned"
    PROGRESS,                   \* the owner of the guard of the PROGRESS mutex (match_call.rs:60-62)
    fc_matches,                 \* the matches of SEXP_FUNC_COMM in the source file (main.rs:106)
    fc_pos,                     \* number of matches the loop of main.rs:111 has handled
    func_comments,              \* main.rs:108
    func_code,                  \* main.rs:109
    dup_funcs,                  \* main.rs:110
    calling_pairs,              \* main.rs:218
    pending,                    \* pairs the loop of main.rs:223 has still to visit
    samples_set,                \* the HashSet samples of main.rs:222
    lpc                         \* position of process_func_call_comm

gvars == <<lines, pos, sample_group_identifier, cur_group_samples, emitted, rpc>>

wvars == <<sample_group, samples, out, wpc>>

pvars == <<paths, num_threads, input_threads, input_th, queue, rx_done, in_progress,
           writing, file, blocks, dropped, failed, mpc>>

cvars == <<m_captures, func_validate, callees_found, stdout, fpc>>

kvars == <<PROGRESS>>

lvars == <<fc_matches, fc_pos, func_comments, func_code, dup_funcs, calling_pairs, pending,
           samples_set, lpc>>

vars == <<gvars, wvars, pvars, cvars, kvars, lvars>>

(***************************************************************************)
(* Bounds                                                                  *)
(***************************************************************************)
MaxLines == 4

MaxGroupLen == 4

MaxCodeLen == 5

(***************************************************************************)
(* Generic helpers                                                         *)
(***************************************************************************)
Max(S) == CHOOSE x \in S : \A y \in S : y <= x

Min2(a, b) == IF a <= b THEN a ELSE b

RECURSIVE Concat(_)
Concat(ss) == IF ss = <<>> THEN <<>> ELSE Head(ss) \o Concat(Tail(ss))

(***************************************************************************)
(* Input lines.  A line is empty, unreadable (the Lines iterator yields    *)
(* Err), undecodable (serde_json::from_str fails) or the JSON of a         *)
(* JsonSample.  original_string stands for the record's remaining fields,  *)
(* which the reader carries along untouched; it is the line number, so     *)
(* that every record of a file is distinguishable.                         *)
(***************************************************************************)
Repos == {"", "R", "S"}

RawFuncNames == { <<"f">>, <<"C", ".", "f">> }

SkipKinds == {"empty", "ioerr", "bad"}

LineShapes ==
    [kind : SkipKinds, repo : {""}, func_name : {<<>>}]
      \cup [kind : {"json"}, repo : Repos, func_name : RawFuncNames]

MkLine(shape, i) ==
    [kind |-> shape.kind, repo |-> shape.repo, func_name |-> shape.func_name,
     original_string |-> i]

\* the files of n lines
Files(n) == { [i \in 1..n |-> MkLine(sh[i], i)] : sh \in [1..n -> LineShapes] }

\* serde_json::from_str::<JsonSample>(&line) succeeds
Decodable(line) == line.kind = "json"

\* every field of the line's JSON object is carried into the record
JsonSample(line) == [f \in (DOMAIN line) \ {"kind"} |-> line[f]]

\* json_sample.func_name.split('.').last().unwrap()
LastSegment(s) ==
    LET dots  == {i \in 1..Len(s) : s[i] = "."}
        start == IF dots = {} THEN 1 ELSE Max(dots) + 1
    IN  SubSeq(s, start, Len(s))

(***************************************************************************)
(* The reader task of one file (match_call.rs:172-204).  The local state   *)
(* is st = [ident, cur, sent].                                             *)
(***************************************************************************)
\* mutant: the emptiness test inverted (cur_group_samples.len() == 0)
IsBoundary_EmptyTest(repo, ident, cur) == repo # ident /\ Len(cur) = 0

\* json_sample.repo != sample_group_identifier && cur_group_samples.len() > 0
IsBoundary(repo, ident, cur) == repo # ident /\ Len(cur) > 0

\* body of `if let Ok(mut json_sample) = serde_json::from_str(..)`
OnSample(st, line) ==
    LET json_sample == [JsonSample(line) EXCEPT !.func_name = LastSegment(@)]
    IN  IF IsBoundary(json_sample.repo, st.ident, st.cur)
        THEN [ident |-> json_sample.repo,
              cur   |-> <<json_sample>>,
              sent  |-> Append(st.sent, st.cur)]
        ELSE [st EXCEPT !.cur = Append(@, json_sample)]

\* mutant: a skipped line forgets the remembered repo identifier
OnSkipped_Forget(st, line) == [st EXCEPT !.ident = ""]

\* an Err line, an empty line (continue) or a line that fails to decode
OnSkipped(st, line) == st

\* one iteration of `for line in lines`
ReaderStep(st, line) ==
    IF Decodable(line) THEN OnSample(st, line) ELSE OnSkipped(st, line)

\* mutant: the final partial group is not sent
FinalFlush_Missing(st) == st

\* if !cur_group_samples.is_empty() { tx.send(cur_group_samples) }
FinalFlush(st) ==
    IF st.cur # <<>>
    THEN [st EXCEPT !.sent = Append(@, st.cur), !.cur = <<>>]
    ELSE st

LegacyIdle ==
    /\ fc_matches = <<>>
    /\ fc_pos = 0
    /\ func_comments = <<>>
    /\ func_code = <<>>
    /\ dup_funcs = {}
    /\ calling_pairs = {}
    /\ pending = {}
    /\ samples_set = {}
    /\ lpc = "idle"

\* no task holds the guard of PROGRESS
LockIdle == PROGRESS = <<>>

ScanIdle ==
    /\ m_captures = <<>>
    /\ func_validate = {}
    /\ callees_found = {}
    /\ stdout = <<>>
    /\ fpc = "idle"

WorkerIdle ==
    /\ sample_group = <<>>
    /\ samples = <<>>
    /\ out = <<>>
    /\ wpc = "idle"

PipelineIdle ==
    /\ paths = <<>>
    /\ num_threads = 0
    /\ input_threads = <<>>
    /\ input_th = [pc |-> "idle", k |-> 0]
    /\ queue = <<>>
    /\ rx_done = FALSE
    /\ in_progress = {}
    /\ writing = <<>>
    /\ file = <<>>
    /\ blocks = EmptyBag
    /\ dropped = {}
    /\ failed = {}
    /\ mpc = "idle"

ReaderState == [ident |-> sample_group_identifier,
                cur   |-> cur_group_samples,
                sent  |-> emitted]

InitGrouper ==
    /\ \E n \in 0..MaxLines : lines \in Files(n)
    /\ pos = 0
    /\ sample_group_identifier = ""
    /\ cur_group_samples = <<>>
    /\ emitted = <<>>
    /\ rpc = "lines"
    /\ WorkerIdle
    /\ PipelineIdle
    /\ ScanIdle
    /\ LockIdle
    /\ LegacyIdle

ReadSample ==
    /\ rpc = "lines"
    /\ pos < Len(lines)
    /\ Decodable(lines[pos + 1])
    /\ LET st == ReaderStep(ReaderState, lines[pos + 1])
       IN  /\ sample_group_identifier' = st.ident
           /\ cur_group_samples' = st.cur
           /\ emitted' = st.sent
    /\ pos' = pos + 1
    /\ UNCHANGED <<lines, rpc, wvars, pvars, cvars, kvars, lvars>>

SkipLine ==
    /\ rpc = "lines"
    /\ pos < Len(lines)
    /\ ~Decodable(lines[pos + 1])
    /\ LET st == ReaderStep(ReaderState, lines[pos + 1])
       IN  /\ sample_group_identifier' = st.ident
           /\ cur_group_samples' = st.cur
           /\ emitted' = st.sent
    /\ pos' = pos + 1
    /\ UNCHANGED <<lines, rpc, wvars, pvars, cvars, kvars, lvars>>

EndOfFile ==
    /\ rpc = "lines"
    /\ pos = Len(lines)
    /\ LET st == FinalFlush(ReaderState)
       IN  /\ sample_group_identifier' = st.ident
           /\ cur_group_samples' = st.cur
           /\ emitted' = st.sent
    /\ rpc' = "done"
    /\ UNCHANGED <<lines, pos, wvars, pvars, cvars, kvars, lvars>>

NextGrouper == ReadSample \/ SkipLine \/ EndOfFile

SpecGrouper == InitGrouper /\ [][NextGrouper]_vars

(***************************************************************************)
(* Claims about the reader task (SpecGrouper)                              *)
(***************************************************************************)
\* the `for line in lines` loop run from state st over the lines ls
RECURSIVE RunReader(_, _)
RunReader(st, ls) ==
    IF ls = <<>> THEN st ELSE RunReader(ReaderStep(st, Head(ls)), Tail(ls))

ReaderInit == [ident |-> "", cur |-> <<>>, sent |-> <<>>]

\* the successfully decoded records of ls, in arrival order
Decoded(ls) ==
    LET ok == SelectSeq(ls, Decodable)
    IN  [k \in 1..Len(ok) |-> [JsonSample(ok[k]) EXCEPT !.func_name = LastSegment(@)]]

IsEmitted(rec) ==
    \E g \in 1..Len(emitted) : \E j \in 1..Len(emitted[g]) : emitted[g][j] = rec

GroupOf(rec) ==
    CHOOSE g \in 1..Len(emitted) : \E j \in 1..Len(emitted[g]) : emitted[g][j] = rec

\* the maximal contiguous runs of equal repo in the record sequence d
RunStarts(d) == {k \in 1..Len(d) : k = 1 \/ d[k].repo # d[k - 1].repo}

\* C1: when a file has been read, two adjacent decoded records with the same
\* repo are in the same emitted group, and there is exactly one emitted group
\* per maximal contiguous run of equal repo.
C1_OneGroupPerRun ==
    rpc = "done" =>
        LET d == Decoded(lines)
        IN  /\ \A k \in 1..(Len(d) - 1) :
                  d[k].repo = d[k + 1].repo => GroupOf(d[k]) = GroupOf(d[k + 1])
            /\ Len(emitted) = Cardinality(RunStarts(d))

\* C2: every group handed to the queue is repository-homogeneous: all its
\* records carry the same repo (the empty repo included).
C2_GroupsHomogeneous ==
    \A g \in 1..Len(emitted) :
        \A i, j \in 1..Len(emitted[g]) : emitted[g][i].repo = emitted[g][j].repo

\* C3: the emitted groups followed by the current partial group are exactly
\* the decoded records of the lines consumed so far, in arrival order; no
\* emitted group is empty; at end of input the partial group has been flushed,
\* so the emitted groups concatenate to the decoded records of the file.
C3_ConcatIsDecoded ==
    /\ Concat(emitted) \o cur_group_samples = Decoded(SubSeq(lines, 1, pos))
    /\ \A g \in 1..Len(emitted) : emitted[g] # <<>>
    /\ rpc = "done" => /\ cur_group_samples = <<>>
                       /\ Concat(emitted) = Decoded(lines)

C3_Witness ==
    /\ rpc = "done"
    /\ Len(emitted) >= 2
    /\ Len(emitted[Len(emitted)]) >= 2
    /\ \E i \in 1..Len(lines) : ~Decodable(lines[i])

\* C4: two emitted records with the same repo that have a decoded record of a
\* different repo between them in the stream are in different groups.
C4_NoMergeAcrossBoundary ==
    LET d == Decoded(SubSeq(lines, 1, pos))
    IN  \A i, j, k \in 1..Len(d) :
            ( /\ i < j /\ j < k
              /\ d[i].repo = d[k].repo
              /\ d[j].repo # d[i].repo
              /\ IsEmitted(d[i]) /\ IsEmitted(d[k]) )
            => GroupOf(d[i]) # GroupOf(d[k])

C4_Witness ==
    /\ rpc = "done"
    /\ LET d == Decoded(lines)
       IN  \E i, j, k \in 1..Len(d) :
               /\ i < j /\ j < k
               /\ d[i].repo = d[k].repo
               /\ d[j].repo # d[i].repo
               /\ IsEmitted(d[i]) /\ IsEmitted(d[k])

\* C5: skipped lines (empty, unreadable, undecodable) do not affect grouping:
\* after any number of lines the reader's remembered repo, partial group and
\* emitted groups are those it has after reading only the decodable lines
\* among them, and the groups emitted for the file are those emitted for the
\* file with the skipped lines removed.
C5_SkippedLinesNeutral ==
    /\ rpc = "lines" =>
           ReaderState = RunReader(ReaderInit, SelectSeq(SubSeq(lines, 1, pos), Decodable))
    /\ rpc = "done" =>
           emitted = FinalFlush(RunReader(ReaderInit, SelectSeq(lines, Decodable))).sent

C5_Witness ==
    /\ rpc = "done"
    /\ \E i, j, k \in 1..Len(lines) :
           /\ i < j /\ j < k
           /\ Decodable(lines[i]) /\ ~Decodable(lines[j]) /\ Decodable(lines[k])
           /\ \E g \in 1..Len(emitted) : \E a, b \in 1..Len(emitted[g]) :
                  /\ emitted[g][a].original_string = i
                  /\ emitted[g][b].original_string = k

(***************************************************************************)
(* Strings as character sequences                                          *)
(***************************************************************************)
\* the characters the model uses, in ascending byte order (Rust's str Ord)
Ascii ==
    <<"(", ")", ".", ";", "<", ">", "C", "_",
      "a", "b", "c", "d", "e", "f", "g", "h", "i", "j", "k", "l", "m",
      "n", "o", "p", "q", "r", "s", "t", "u", "v", "w", "x", "y", "z">>

ByteOf(c) == CHOOSE i \in 1..Len(Ascii) : Ascii[i] = c

\* the characters the regex class \w (and so \b) treats as word characters
WordChars ==
    {"C", "_",
     "a", "b", "c", "d", "e", "f", "g", "h", "i", "j", "k", "l", "m",
     "n", "o", "p", "q", "r", "s", "t", "u", "v", "w", "x", "y", "z"}

\* a < b in the lexicographic byte order of BTreeMap<&str, _> keys
StrLess(a, b) ==
    \E i \in 1..(Min2(Len(a), Len(b)) + 1) :
        /\ \A j \in 1..(i - 1) : a[j] = b[j]
        /\ \/ i > Len(a) /\ i <= Len(b)
           \/ i <= Len(a) /\ i <= Len(b) /\ ByteOf(a[i]) < ByteOf(b[i])

\* mutant: the keys are iterated in descending order
RECURSIVE SortedKeys_Descending(_)
SortedKeys_Descending(keys) ==
    IF keys = {} THEN <<>>
    ELSE LET k == CHOOSE x \in keys : \A y \in keys \ {x} : StrLess(y, x)
         IN  <<k>> \o SortedKeys_Descending(keys \ {k})

\* the iteration order of a BTreeMap<&str, _>: ascending keys
RECURSIVE SortedKeys(_)
SortedKeys(keys) ==
    IF keys = {} THEN <<>>
    ELSE LET k == CHOOSE x \in keys : \A y \in keys \ {x} : StrLess(x, y)
         IN  <<k>> \o SortedKeys(keys \ {k})

RECURSIVE SortedInts(_)
SortedInts(S) ==
    IF S = {} THEN <<>>
    ELSE LET k == CHOOSE x \in S : \A y \in S : x <= y
         IN  <<k>> \o SortedInts(S \ {k})

IsWordAt(text, i) == i \in 1..Len(text) /\ text[i] \in WordChars

\* FUNC_CALL_ID_MASK = "<masked_func_id>"
FUNC_CALL_ID_MASK ==
    <<"<", "m", "a", "s", "k", "e", "d", "_", "f", "u", "n", "c", "_", "i", "d", ">">>

(***************************************************************************)
(* The query engine on a record's code (match_call.rs:289-293, 342-344):   *)
(* an identifier directly followed by "(" is a call site, captured as      *)
(* @function.method when it follows a "." and as @function otherwise.      *)
(***************************************************************************)
IdentStarts(code) ==
    {s \in 1..Len(code) : IsWordAt(code, s) /\ ~IsWordAt(code, s - 1)}

\* the last character of the identifier that starts at s
RECURSIVE IdentEnd(_, _)
IdentEnd(code, s) == IF IsWordAt(code, s + 1) THEN IdentEnd(code, s + 1) ELSE s

CallSiteStarts(code) ==
    {s \in IdentStarts(code) :
        LET e == IdentEnd(code, s) IN e < Len(code) /\ code[e + 1] = "("}

QueryCaptures(code) ==
    LET starts == SortedInts(CallSiteStarts(code))
    IN  [k \in 1..Len(starts) |->
            LET s == starts[k]
            IN  [name |-> IF s > 1 /\ code[s - 1] = "." THEN "function.method"
                                                         ELSE "function",
                 text |-> SubSeq(code, s, IdentEnd(code, s))]]

\* code_tokens of a record: identifiers and single punctuation characters
RECURSIVE Tokenize(_)
Tokenize(code) ==
    IF code = <<>> THEN <<>>
    ELSE IF IsWordAt(code, 1)
         THEN LET e == IdentEnd(code, 1)
              IN  <<SubSeq(code, 1, e)>> \o Tokenize(SubSeq(code, e + 1, Len(code)))
         ELSE <<SubSeq(code, 1, 1)>> \o Tokenize(Tail(code))

(***************************************************************************)
(* process_grouped_samples (match_call.rs:229-277)                         *)
(***************************************************************************)
\* mutant: an earlier record keeps its entry (first-write-wins)
CollectMap_FirstWins(group) ==
    [n \in {group[i].func_name : i \in 1..Len(group)} |->
        group[CHOOSE i \in 1..Len(group) :
                 /\ group[i].func_name = n
                 /\ \A j \in 1..(i - 1) : group[j].func_name # n]]

\* sample_group.iter().map(|e| (e.func_name.as_str(), e)).collect::<BTreeMap>():
\* a later record replaces an earlier one with the same key
CollectMap(group) ==
    [n \in {group[i].func_name : i \in 1..Len(group)} |->
        group[Max({i \in 1..Len(group) : group[i].func_name = n})]]

\* mutant: the record's own name is not removed from the candidates
OtherFuncs_KeepOwn(group, sample) == CollectMap(group)

\* the records of every group the reader tasks have handed to tx.send
AllSent == Concat([p \in 1..Len(paths) |-> Concat(input_threads[p].st.sent)])

\* mutant: the candidates are the records of every group, not of this one
OtherFuncs_AllGroups(group, sample) ==
    LET all == CollectMap(group \o AllSent)
    IN  [n \in (DOMAIN all) \ {sample.func_name} |-> all[n]]

\* other_funcs after retain(|k, _v| *k != &sample.func_name)
OtherFuncs(group, sample) ==
    LET all == CollectMap(group)
    IN  [n \in (DOMAIN all) \ {sample.func_name} |-> all[n]]

\* mutant: a capture of any label is taken as a call
FindFunctionCalls_AnyLabel(captures, valid) ==
    {captures[k].text : k \in 1..Len(captures)} \cap valid

\* find_function_calls: the HashSet of captured names accepted by func_validate_fn
RECURSIVE FindFunctionCalls(_, _)
FindFunctionCalls(captures, valid) ==
    IF captures = <<>> THEN {}
    ELSE LET capture == Head(captures)
             callees == FindFunctionCalls(Tail(captures), valid)
         IN  IF capture.name \in {"function", "function.method"}
             THEN IF capture.text \in valid THEN callees \cup {capture.text} ELSE callees
             ELSE callees

Callees(group, i) ==
    FindFunctionCalls(QueryCaptures(group[i].code), DOMAIN OtherFuncs(group, group[i]))

\* non_callees after retain(|k, _v| !callees.contains(k))
NonCallees(other_funcs, callees) ==
    [n \in (DOMAIN other_funcs) \ callees |-> other_funcs[n]]

\* mutant: the quota test `if neg_samples_needed == 0 { break; }` is missing
RECURSIVE NegSamples_NoQuota(_, _, _, _)
NegSamples_NoQuota(sample, non_callees, keys, neg_samples_needed) ==
    IF keys = <<>> THEN <<>>
    ELSE <<<<sample, non_callees[Head(keys)], FALSE>>>>
           \o NegSamples_NoQuota(sample, non_callees, Tail(keys), neg_samples_needed - 1)

\* for (_, non_callee) in non_callees { if neg_samples_needed == 0 { break; } .. }
\* keys is the map's key order
RECURSIVE NegSamples(_, _, _, _)
NegSamples(sample, non_callees, keys, neg_samples_needed) ==
    IF keys = <<>> \/ neg_samples_needed = 0 THEN <<>>
    ELSE <<<<sample, non_callees[Head(keys)], FALSE>>>>
           \o NegSamples(sample, non_callees, Tail(keys), neg_samples_needed - 1)

\* the iteration orders a HashSet<String> can have
Orders(S) ==
    {o \in [1..Cardinality(S) -> S] : \A i, j \in 1..Cardinality(S) : o[i] = o[j] => i = j}

\* the closure of the par_iter map for record i; order is the iteration order
\* of the callees HashSet
\* mutant: the negative pairs are pushed before the positive ones
AllSamples_NegativesFirst(group, i, order) ==
    LET sample      == group[i]
        other_funcs == OtherFuncs(group, sample)
        callees     == {order[j] : j \in 1..Len(order)}
        non_callees == NonCallees(other_funcs, callees)
    IN  NegSamples(sample, non_callees, SortedKeys(DOMAIN non_callees),
                   Cardinality(callees))
          \o [j \in 1..Len(order) |-> <<sample, other_funcs[order[j]], TRUE>>]

AllSamples(group, i, order) ==
    LET sample      == group[i]
        other_funcs == OtherFuncs(group, sample)
        callees     == {order[j] : j \in 1..Len(order)}
        non_callees == NonCallees(other_funcs, callees)
    IN  [j \in 1..Len(order) |-> <<sample, other_funcs[order[j]], TRUE>>]
          \o NegSamples(sample, non_callees, SortedKeys(DOMAIN non_callees),
                        Cardinality(callees))

\* mutant: the callees are kept in a Vec, one entry per accepted capture
CalleeOrders_Vec(group, i) ==
    LET valid == DOMAIN OtherFuncs(group, group[i])
        acc   == SelectSeq(QueryCaptures(group[i].code),
                           LAMBDA c : c.name \in {"function", "function.method"}
                                      /\ c.text \in valid)
    IN  {[k \in 1..Len(acc) |-> acc[k].text]}

\* for callee in &callees: the orders in which the HashSet that
\* find_function_calls returns can be iterated
CalleeOrders(group, i) == Orders(Callees(group, i))

\* the results the par_iter map can collect for the records i.. of the group
RECURSIVE MapResults(_, _)
MapResults(group, i) ==
    IF i > Len(group) THEN {<<>>}
    ELSE {<<AllSamples(group, i, order)>> \o rest :
             order \in CalleeOrders(group, i), rest \in MapResults(group, i + 1)}

(***************************************************************************)
(* The masking map of run_preprocessing (match_call.rs:98-134)             *)
(***************************************************************************)
\* \b at the position between text[i] and text[i + 1]
WordBoundary(text, i) == IsWordAt(text, i) # IsWordAt(text, i + 1)

\* the regex \b<name>\b matches text at p (name consists of literal characters)
MatchAt(text, name, p) ==
    /\ p + Len(name) - 1 <= Len(text)
    /\ SubSeq(text, p, p + Len(name) - 1) = name
    /\ WordBoundary(text, p - 1)
    /\ WordBoundary(text, p + Len(name) - 1)

\* re.replace_all(text, FUNC_CALL_ID_MASK) from position p on: leftmost,
\* non-overlapping matches
RECURSIVE ReplaceFrom(_, _, _)
ReplaceFrom(text, name, p) ==
    IF p > Len(text) THEN <<>>
    ELSE IF MatchAt(text, name, p)
         THEN FUNC_CALL_ID_MASK \o ReplaceFrom(text, name, p + Len(name))
         ELSE <<text[p]>> \o ReplaceFrom(text, name, p + 1)

MaskCode(code, name) == ReplaceFrom(code, name, 1)

MaskTokens(tokens, name) ==
    [k \in 1..Len(tokens) |-> IF tokens[k] = name THEN FUNC_CALL_ID_MASK ELSE tokens[k]]

\* mutant: the caller is masked whatever the label
CallerCode_Always(caller, callee, label) ==
    <<MaskCode(caller.code, callee.func_name),
      MaskTokens(caller.code_tokens, callee.func_name)>>

\* let (caller_code, caller_code_tokens) = match label { .. }
CallerCode(caller, callee, label) ==
    IF label
    THEN <<MaskCode(caller.code, callee.func_name),
           MaskTokens(caller.code_tokens, callee.func_name)>>
    ELSE <<caller.code, caller.code_tokens>>

ToCallJsonSample(t) ==
    LET caller == t[1]
        callee == t[2]
        label  == t[3]
        masked == CallerCode(caller, callee, label)
    IN  [caller_code        |-> masked[1],
         caller_comm        |-> caller.docstring,
         callee_code        |-> callee.code,
         callee_comm        |-> callee.docstring,
         label              |-> label,
         caller_code_tokens |-> masked[2],
         caller_comm_tokens |-> caller.docstring_tokens,
         callee_code_tokens |-> callee.code_tokens,
         callee_comm_tokens |-> callee.docstring_tokens]

(***************************************************************************)
(* Input groups.  Record i of a group has docstring i, so that records     *)
(* with the same name and code are still distinguishable.                  *)
(***************************************************************************)
FuncNames == { <<"f">>, <<"f", "g">>, <<"g">>, <<"h">> }

\* a record's code is empty or  g();.g();.h();fg;  : it calls g as a function
\* and as a method, calls h as a method and mentions fg without calling it
Bodies ==
    { <<>>,
      <<"g", "(", ")", ";", ".", "g", "(", ")", ";",
        ".", "h", "(", ")", ";", "f", "g", ";">> }

SampleShapes ==
    { [func_name |-> n, code |-> b, code_tokens |-> Tokenize(b)] :
        n \in FuncNames, b \in Bodies }

MkSample(shape, i) ==
    [func_name        |-> shape.func_name,
     repo             |-> "R",
     original_string  |-> shape.code,
     code             |-> shape.code,
     code_tokens      |-> shape.code_tokens,
     docstring        |-> i,
     docstring_tokens |-> <<i>>]

\* the groups of n records
Groups(n) == { [i \in 1..n |-> MkSample(sh[i], i)] : sh \in [1..n -> SampleShapes] }

\* texts of at most n characters over the alphabet A
RECURSIVE Texts(_, _)
Texts(A, n) ==
    IF n = 0 THEN {<<>>}
    ELSE LET shorter == Texts(A, n - 1)
         IN  shorter \cup {Append(t, c) : t \in shorter, c \in A}

MaskAlphabet == {"d", "i", "(", ";"}

MaskCallees == { <<"d">>, <<"i">>, <<"i", "d">> }

\* the texts in which callee is called
MaskCallers(callee) ==
    { [func_name |-> <<"c">>, code |-> t, code_tokens |-> Tokenize(t)] :
        t \in {t \in Texts(MaskAlphabet, MaxCodeLen) :
                  \E s \in CallSiteStarts(t) : SubSeq(t, s, IdentEnd(t, s)) = callee} }

\* a caller "c" whose code is any short text that calls the callee, and the callee
MaskGroups ==
    UNION { { <<MkSample(caller, 1),
                MkSample([func_name |-> callee, code |-> <<>>, code_tokens |-> <<>>], 2)>> :
                caller \in MaskCallers(callee) }
            : callee \in MaskCallees }

\* six names, in an order that is neither ascending nor descending
WideNames == << <<"h">>, <<"c">>, <<"f", "g">>, <<"e">>, <<"g">>, <<"f">> >>

NoRecord == <<"-">>

\* the groups that hold at most one record per name of WideNames, in the order
\* of WideNames, each with one of the Bodies as its code
WideGroups ==
    { LET present == SelectSeq([k \in 1..Len(WideNames) |-> k], LAMBDA k : sel[k] # NoRecord)
      IN  [j \in 1..Len(present) |->
              MkSample([func_name   |-> WideNames[present[j]],
                        code        |-> sel[present[j]],
                        code_tokens |-> Tokenize(sel[present[j]])], j)] :
        sel \in [1..Len(WideNames) -> Bodies \cup {NoRecord}] } \ {<<>>}

(***************************************************************************)
(* One worker handling one group                                           *)
(***************************************************************************)
ReaderIdle ==
    /\ lines = <<>>
    /\ pos = 0
    /\ sample_group_identifier = ""
    /\ cur_group_samples = <<>>
    /\ emitted = <<>>
    /\ rpc = "idle"

InitPairs ==
    /\ \E n \in 1..MaxGroupLen : sample_group \in Groups(n)
    /\ samples = <<>>
    /\ out = <<>>
    /\ wpc = "process"
    /\ ReaderIdle
    /\ PipelineIdle
    /\ ScanIdle
    /\ LockIdle
    /\ LegacyIdle

InitMask ==
    /\ sample_group \in MaskGroups
    /\ samples = <<>>
    /\ out = <<>>
    /\ wpc = "process"
    /\ ReaderIdle
    /\ PipelineIdle
    /\ ScanIdle
    /\ LockIdle
    /\ LegacyIdle

\* process_grouped_samples(&sample_group, language): the par_iter map over the
\* records, each with some iteration order of its callees, then the flatten
ProcessGroup ==
    /\ wpc = "process"
    /\ \E r \in MapResults(sample_group, 1) : samples' = Concat(r)
    /\ wpc' = "mask"
    /\ UNCHANGED <<sample_group, out, gvars, pvars, cvars, kvars, lvars>>

\* samples.into_par_iter().map(|(caller, callee, label)| ..).collect()
MaskSamples ==
    /\ wpc = "mask"
    /\ out' = [k \in 1..Len(samples) |-> ToCallJsonSample(samples[k])]
    /\ wpc' = "done"
    /\ UNCHANGED <<sample_group, samples, gvars, pvars, cvars, kvars, lvars>>

NextWorker == ProcessGroup \/ MaskSamples

SpecPairs == InitPairs /\ [][NextWorker]_vars

SpecMask == InitMask /\ [][NextWorker]_vars

InitWide ==
    /\ sample_group \in WideGroups
    /\ samples = <<>>
    /\ out = <<>>
    /\ wpc = "process"
    /\ ReaderIdle
    /\ PipelineIdle
    /\ ScanIdle
    /\ LockIdle
    /\ LegacyIdle

\* the same worker on groups of up to six distinct names
SpecWide == InitWide /\ [][NextWorker]_vars

(***************************************************************************)
(* Claims about the worker (SpecPairs, SpecMask)                           *)
(***************************************************************************)
\* the pairs whose caller is record i of the group
PairsOf(i) == SelectSeq(samples, LAMBDA t : t[1] = sample_group[i])

CountLabel(pairs, label) == Cardinality({k \in 1..Len(pairs) : pairs[k][3] = label})

\* the distinct (callerName, calleeName) call edges resolved in the group
Edges(group) ==
    UNION { {<<group[i].func_name, c>> : c \in Callees(group, i)} : i \in 1..Len(group) }

\* the names of the group members that record i neither is nor calls
NonCalleeNames(group, i) ==
    {group[j].func_name : j \in 1..Len(group)}
        \ ({group[i].func_name} \cup Callees(group, i))

\* name occurs verbatim (as a substring) in text
Occurs(name, text) ==
    \E p \in 1..(Len(text) - Len(name) + 1) : SubSeq(text, p, p + Len(name) - 1) = name

\* C6: the number of positive pairs produced for a group equals the number of
\* distinct (callerName, calleeName) call edges resolved in the group, also
\* when several records of the group share a functionName.
C6_PositivesEqualEdges ==
    wpc = "done" => CountLabel(samples, TRUE) = Cardinality(Edges(sample_group))

\* C7: a caller record with k resolved callees and m non-callee group members
\* (members counted by functionName, the identity within a group) yields k
\* positive and min(k, m) negative pairs, so never more negatives than k and no
\* pair at all when k = 0.  A group {f1, f2, f3} in which f1 calls only f2 and
\* f2, f3 call nothing yields exactly (f1, f2, true), (f1, f3, false); a group
\* {f1, f2} in which f1 calls f2 yields exactly (f1, f2, true).
C7_NegativeQuota ==
    /\ wpc = "done" => \A i \in 1..Len(sample_group) :
          LET k == Cardinality(Callees(sample_group, i))
              m == Cardinality(NonCalleeNames(sample_group, i))
          IN  /\ CountLabel(PairsOf(i), TRUE) = k
              /\ CountLabel(PairsOf(i), FALSE) = Min2(k, m)
              /\ CountLabel(PairsOf(i), FALSE) <= k
              /\ k = 0 => PairsOf(i) = <<>>
    /\ wpc = "done" =>
          /\ \A a, b, c \in 1..Len(sample_group) :
                ( /\ Len(sample_group) = 3
                  /\ Cardinality({sample_group[a].func_name, sample_group[b].func_name,
                                  sample_group[c].func_name}) = 3
                  /\ Callees(sample_group, a) = {sample_group[b].func_name}
                  /\ Callees(sample_group, b) = {}
                  /\ Callees(sample_group, c) = {} )
                => samples = << <<sample_group[a], sample_group[b], TRUE>>,
                                <<sample_group[a], sample_group[c], FALSE>> >>
          /\ \A a, b \in 1..Len(sample_group) :
                ( /\ Len(sample_group) = 2
                  /\ sample_group[a].func_name # sample_group[b].func_name
                  /\ Callees(sample_group, a) = {sample_group[b].func_name}
                  /\ Callees(sample_group, b) = {} )
                => samples = << <<sample_group[a], sample_group[b], TRUE>> >>

\* a caller whose quota (k = 1) is smaller than its non-callee set (m = 2), next
\* to a caller whose non-callee set (m = 1) is smaller than its quota (k = 2)
C7_Witness ==
    /\ wpc = "done"
    /\ \E i \in 1..Len(sample_group) :
          /\ Cardinality(Callees(sample_group, i)) = 1
          /\ Cardinality(NonCalleeNames(sample_group, i)) = 2
          /\ CountLabel(PairsOf(i), FALSE) = 1
    /\ \E i \in 1..Len(sample_group) :
          /\ Cardinality(Callees(sample_group, i)) = 2
          /\ Cardinality(NonCalleeNames(sample_group, i)) = 1
          /\ CountLabel(PairsOf(i), FALSE) = 1

\* C8: in every pair, positive or negative, the caller's functionName differs
\* from the callee's functionName.
C8_CallerIsNotCallee ==
    /\ \A k \in 1..Len(samples) : samples[k][1].func_name # samples[k][2].func_name

\* a record that calls its own name, shares that name with another record of
\* the group, and yields pairs
C8_Witness ==
    /\ wpc = "done"
    /\ \E i, j \in 1..Len(sample_group) :
          /\ i # j
          /\ sample_group[i].func_name = sample_group[j].func_name
          /\ \E c \in 1..Len(QueryCaptures(sample_group[i].code)) :
                 QueryCaptures(sample_group[i].code)[c].text = sample_group[i].func_name
          /\ CountLabel(PairsOf(i), TRUE) >= 1
          /\ CountLabel(PairsOf(i), FALSE) >= 1

\* C9: for every positive pair, the callee's name does not occur verbatim in
\* the emitted caller code nor in any token of the emitted caller tokens.
C9_CalleeNameGone ==
    wpc = "done" =>
        \A k \in 1..Len(out) :
            samples[k][3] =>
                /\ ~Occurs(samples[k][2].func_name, out[k].caller_code)
                /\ \A t \in 1..Len(out[k].caller_code_tokens) :
                       ~Occurs(samples[k][2].func_name, out[k].caller_code_tokens[t])

\* C10: a negative pair carries the caller record's code and code_tokens as
\* read; in every pair the callee's code, tokens and docstring fields and the
\* caller's docstring fields are those of the records read.
C10_MaskOnlyPositives ==
    wpc = "done" =>
        /\ Len(out) = Len(samples)
        /\ \A k \in 1..Len(out) :
              LET caller == samples[k][1]
                  callee == samples[k][2]
              IN  /\ \E i \in 1..Len(sample_group) : sample_group[i] = caller
                  /\ \E i \in 1..Len(sample_group) : sample_group[i] = callee
                  /\ out[k].label = samples[k][3]
                  /\ ~out[k].label =>
                         /\ out[k].caller_code = caller.code
                         /\ out[k].caller_code_tokens = caller.code_tokens
                  /\ out[k].caller_comm = caller.docstring
                  /\ out[k].caller_comm_tokens = caller.docstring_tokens
                  /\ out[k].callee_code = callee.code
                  /\ out[k].callee_code_tokens = callee.code_tokens
                  /\ out[k].callee_comm = callee.docstring
                  /\ out[k].callee_comm_tokens = callee.docstring_tokens

\* a negative pair whose caller mentions the non-callee's name, next to a
\* positive pair whose caller code was masked
C10_Witness ==
    /\ wpc = "done"
    /\ \E k \in 1..Len(out) :
          /\ ~out[k].label
          /\ \E t \in 1..Len(samples[k][1].code_tokens) :
                 samples[k][1].code_tokens[t] = samples[k][2].func_name
    /\ \E k \in 1..Len(out) :
          /\ out[k].label
          /\ out[k].caller_code # samples[k][1].code
          /\ out[k].caller_code_tokens # samples[k][1].code_tokens

\* the names a record's code calls
CalledNames(rec) ==
    LET captures == QueryCaptures(rec.code)
    IN  {captures[c].text : c \in 1..Len(captures)}

\* the positive pairs of record i whose callee is named name
PositivesFor(i, name) ==
    LET pairs == PairsOf(i)
    IN  {k \in 1..Len(pairs) : pairs[k][3] /\ pairs[k][2].func_name = name}

\* the kinds of capture under which name is called in code
CaptureKinds(code, name) ==
    LET captures == QueryCaptures(code)
    IN  {captures[c].name : c \in {c \in 1..Len(captures) : captures[c].text = name}}

\* C19: edges are deduplicated per caller record.  However many call sites of
\* a record name a callee, as a function or as a method, the record has at most
\* one positive pair with a callee of that name, and exactly one when the name
\* is that of another member of the group and not the record's own.
C19_OnePositivePerCallee ==
    wpc = "done" =>
        \A i \in 1..Len(sample_group) :
            LET called == CalledNames(sample_group[i])
            IN  \A name \in {sample_group[j].func_name : j \in 1..Len(sample_group)} :
                    LET positives == Cardinality(PositivesFor(i, name))
                    IN  /\ positives <= 1
                        /\ (name \in called /\ name # sample_group[i].func_name)
                           => positives = 1

\* a record calls g once as a function and once as a method and also calls h,
\* both are members of the group, and the record has one positive pair for g
C19_Witness ==
    /\ wpc = "done"
    /\ \E i \in 1..Len(sample_group) :
          /\ CaptureKinds(sample_group[i].code, <<"g">>) = {"function", "function.method"}
          /\ Cardinality(PositivesFor(i, <<"g">>)) = 1
          /\ Cardinality(PositivesFor(i, <<"h">>)) = 1

\* the callee names of the negative pairs of record i, in output order
NegativeNames(i) ==
    LET negs == SelectSeq(PairsOf(i), LAMBDA t : ~t[3])
    IN  [k \in 1..Len(negs) |-> negs[k][2].func_name]

MemberNames == {sample_group[j].func_name : j \in 1..Len(sample_group)}

\* the members record i calls: the called names that another member carries
CalledMembers(i) ==
    (CalledNames(sample_group[i]) \cap MemberNames) \ {sample_group[i].func_name}

\* C20: negative selection is deterministic and disjoint from the edges.  For a
\* caller with k callees and m member names that are neither its own name nor
\* one of its callees, the callees of its negative pairs are min(k, m) of these
\* m names, in strictly ascending byte-lexicographic order, and every name that
\* was not selected is greater than every selected one; no negative pair has a
\* callee the caller calls.
C20_SmallestNonCallees ==
    wpc = "done" =>
        \A i \in 1..Len(sample_group) :
            LET negs   == NegativeNames(i)
                k      == Cardinality(CalledMembers(i))
                others == MemberNames \ ({sample_group[i].func_name} \cup CalledMembers(i))
                chosen == {negs[a] : a \in 1..Len(negs)}
            IN  /\ Len(negs) = Min2(k, Cardinality(others))
                /\ chosen \subseteq others
                /\ \A a, b \in 1..Len(negs) : a < b => StrLess(negs[a], negs[b])
                /\ \A n \in others \ chosen : \A c \in chosen : StrLess(c, n)
                /\ chosen \cap CalledNames(sample_group[i]) = {}

\* a caller named c calls g and h and has the three non-callees e, f and fg:
\* its negative pairs are those with e and f, in this order
C20_Witness ==
    /\ wpc = "done"
    /\ \E i \in 1..Len(sample_group) :
          /\ sample_group[i].func_name = <<"c">>
          /\ CalledMembers(i) = { <<"g">>, <<"h">> }
          /\ MemberNames = { <<"c">>, <<"e">>, <<"f">>, <<"f", "g">>, <<"g">>, <<"h">> }
          /\ NegativeNames(i) = << <<"e">>, <<"f">> >>

\* the last record of the group, in arrival order, that is named name
LastNamed(name) ==
    sample_group[Max({j \in 1..Len(sample_group) : sample_group[j].func_name = name})]

\* C21: duplicate function names in a group follow last-write-wins.  The callee
\* record of every pair, positive or negative, is the last record of the group
\* that carries the callee's name, and among the pairs of one caller record no
\* name occurs twice as callee.
C21_LastWriteWins ==
    wpc = "done" =>
        /\ \A k \in 1..Len(samples) : samples[k][2] = LastNamed(samples[k][2].func_name)
        /\ \A i \in 1..Len(sample_group) :
              \A a, b \in 1..Len(PairsOf(i)) :
                  PairsOf(i)[a][2].func_name = PairsOf(i)[b][2].func_name => a = b

\* two records with different code are named g, and a caller named otherwise
\* has a positive pair whose callee is the later of the two
C21_Witness ==
    /\ wpc = "done"
    /\ \E i, j1, j2 \in 1..Len(sample_group) :
          /\ j1 < j2
          /\ sample_group[j1].func_name = sample_group[j2].func_name
          /\ sample_group[j1].code # sample_group[j2].code
          /\ \E a \in 1..Len(PairsOf(i)) :
                PairsOf(i)[a] = <<sample_group[i], sample_group[j2], TRUE>>

\* the position in the group of the caller of the k-th record of the block
CallerIndex(k) ==
    CHOOSE i \in 1..Len(sample_group) : sample_group[i].docstring = out[k].caller_comm

\* C23: within the block of one group the pairs are ordered by caller, in the
\* group's arrival order, so the pairs of one caller record are contiguous; and
\* among the pairs of one caller record every positive pair precedes every
\* negative pair.  This holds of the pairs that process_grouped_samples returns
\* and of the records made from them, which keep that order.
C23_PositivesFirst ==
    wpc = "done" =>
        /\ Len(out) = Len(samples)
        /\ \A k \in 1..Len(out) :
              /\ samples[k][1] = sample_group[CallerIndex(k)]
              /\ out[k].callee_comm = samples[k][2].docstring
              /\ out[k].label = samples[k][3]
        /\ \A k, l \in 1..Len(out) : k < l =>
              /\ CallerIndex(k) <= CallerIndex(l)
              /\ (CallerIndex(k) = CallerIndex(l) /\ ~out[k].label) => ~out[l].label

\* the block holds pairs of two caller records, each of them with a positive
\* and a negative pair, and one of them with two positive pairs
C23_Witness ==
    /\ wpc = "done"
    /\ \E k1, k2, k3, l1, l2 \in 1..Len(out) :
          /\ k1 < k2 /\ k2 < k3 /\ k3 < l1 /\ l1 < l2
          /\ CallerIndex(k1) = CallerIndex(k2) /\ CallerIndex(k2) = CallerIndex(k3)
          /\ CallerIndex(l1) = CallerIndex(l2) /\ CallerIndex(k3) # CallerIndex(l1)
          /\ out[k1].label /\ out[k2].label /\ ~out[k3].label
          /\ out[l1].label /\ ~out[l2].label

(***************************************************************************)
(* The capture loop of find_function_calls (match_call.rs:344-363)         *)
(***************************************************************************)
MaxCaptures == 3

\* the two labels the loop accepts, and one it does not
KnownLabels == {"function", "function.method"}

CaptureLabels == KnownLabels \cup {"call"}

CaptureTexts == {<<"f">>, <<"g">>}

CaptureSeqs(n) == [1..n -> [name : CaptureLabels, text : CaptureTexts]]

\* the labels printed by the `_` arm, in the order of the captures
Reported(captures) ==
    LET unknown == SelectSeq(captures, LAMBDA c : c.name \notin KnownLabels)
    IN  [k \in 1..Len(unknown) |-> unknown[k].name]

InitCaptures ==
    /\ \E n \in 0..MaxCaptures : m_captures \in CaptureSeqs(n)
    /\ func_validate \in SUBSET CaptureTexts
    /\ callees_found = {}
    /\ stdout = <<>>
    /\ fpc = "scan"
    /\ ReaderIdle
    /\ WorkerIdle
    /\ PipelineIdle
    /\ LockIdle
    /\ LegacyIdle

\* the loops over matches and captures, and the return of callees
ScanCaptures ==
    /\ fpc = "scan"
    /\ callees_found' = FindFunctionCalls(m_captures, func_validate)
    /\ stdout' = Reported(m_captures)
    /\ fpc' = "returned"
    /\ UNCHANGED <<m_captures, func_validate, gvars, wvars, pvars, kvars, lvars>>

NextCaptures == ScanCaptures

SpecCaptures == InitCaptures /\ [][NextCaptures]_vars

KnownCaptures == SelectSeq(m_captures, LAMBDA c : c.name \in KnownLabels)

\* C24: a capture whose label is neither "function" nor "function.method" is
\* reported and the scan goes on to the captures after it.  Every such capture
\* is reported, in order, and contributes no callee: the callees returned are
\* those returned for the sequence without the unknown captures, which are the
\* accepted texts of the captures with a known label.
C24_UnknownCaptureSkipped ==
    fpc = "returned" =>
        /\ stdout = Reported(m_captures)
        /\ Len(stdout) = Len(m_captures) - Len(KnownCaptures)
        /\ callees_found = FindFunctionCalls(KnownCaptures, func_validate)
        /\ callees_found =
              {KnownCaptures[k].text : k \in 1..Len(KnownCaptures)} \cap func_validate

\* a capture with an unknown label, whose text func_validate_fn accepts, was
\* reported and left out of the callees, and a capture after it was taken
C24_Witness ==
    /\ fpc = "returned"
    /\ \E k, l \in 1..Len(m_captures) :
          /\ k < l
          /\ m_captures[k].name \notin KnownLabels
          /\ m_captures[k].text \in func_validate
          /\ m_captures[k].text \notin callees_found
          /\ m_captures[l].name \in KnownLabels
          /\ m_captures[l].text \in callees_found
    /\ stdout # <<>>

(***************************************************************************)
(* The pipeline: run_preprocessing (match_call.rs:75-147) and              *)
(* read_input_data (match_call.rs:149-214).                                *)
(*                                                                         *)
(* read_input_data spawns one reader task per file; every task owns a      *)
(* clone of the sender tx of mpsc::channel(10).  run_preprocessing is the  *)
(* only receiver: buffer_unordered(num_threads) takes up to num_threads    *)
(* groups from the channel, the worker future of a group has no await      *)
(* point and runs to completion when it is polled, and for_each polls the  *)
(* stream again only when the append of the previous block has finished.   *)
(* The PROGRESS mutex is never held across a send or a recv and is left    *)
(* out.                                                                    *)
(***************************************************************************)
MaxFiles == 2

MaxFileLines == 3

MaxDirLines == 4

MaxLongLines == 13

MaxThreads == 2

\* mpsc::channel(10)
ChannelCapacity == 10

\* the code  g();  and  f();
CallG == <<"g", "(", ")", ";">>

CallF == <<"f", "(", ")", ";">>

\* line i of file p: odd lines define f and call g, even lines define g and
\* call f; the record's docstring <<p, i>> identifies it
MkPipeLine(p, i, repo) ==
    LET code == IF i % 2 = 1 THEN CallG ELSE CallF
    IN  [kind             |-> "json",
         repo             |-> repo,
         func_name        |-> IF i % 2 = 1 THEN <<"f">> ELSE <<"g">>,
         original_string  |-> code,
         code             |-> code,
         code_tokens      |-> Tokenize(code),
         docstring        |-> <<p, i>>,
         docstring_tokens |-> <<>>]

\* a file of n records: a first group of two records, then a group per record
LongFile(p, n) ==
    [i \in 1..n |-> MkPipeLine(p, i, IF i <= 2 THEN "" ELSE IF i % 2 = 1 THEN "R" ELSE "S")]

RECURSIVE SumSeq(_)
SumSeq(ns) == IF ns = <<>> THEN 0 ELSE Head(ns) + SumSeq(Tail(ns))

\* the directories of n files that hold at most MaxDirLines lines
Dirs(n) ==
    { [p \in 1..n |-> LongFile(p, len[p])] :
        len \in {l \in [1..n -> 0..MaxFileLines] : SumSeq(l) <= MaxDirLines} }

\* a reader task that has not been spawned yet
NewTask == [pc |-> "unspawned", pos |-> 0, st |-> ReaderInit]

InitRun(dir, n) ==
    /\ paths = dir
    /\ num_threads = n
    /\ input_threads = [p \in 1..Len(dir) |-> NewTask]
    /\ input_th = [pc |-> "spawn", k |-> 1]
    /\ queue = <<>>
    /\ rx_done = FALSE
    /\ in_progress = {}
    /\ writing = <<>>
    /\ file = <<>>
    /\ blocks = EmptyBag
    /\ dropped = {}
    /\ failed = {}
    /\ mpc = "stream"
    /\ ReaderIdle
    /\ WorkerIdle
    /\ ScanIdle
    /\ LockIdle
    /\ LegacyIdle

InitPipeline ==
    \E f \in 0..MaxFiles : \E dir \in Dirs(f) : \E n \in 1..MaxThreads : InitRun(dir, n)

\* one file with as many groups as the channel buffers, or more
InitQueue ==
    \E len \in (MaxLongLines - 2)..MaxLongLines : \E n \in 1..MaxThreads :
        InitRun(<<LongFile(1, len)>>, n)

(***************************************************************************)
(* The channel                                                             *)
(***************************************************************************)
\* the receiver lives in rx_stream, which for_each owns: it is dropped when
\* for_each completes or when run_preprocessing unwinds
RxDropped == mpc \in {"join", "returned", "panicked", "exited"}

\* the tokio runtime is shut down when main returns or unwinds
RuntimeUp == mpc # "exited"

\* mutant: the channel is unbounded
HasRoom_Unbounded(q) == TRUE

\* a send completes only when fewer than 10 groups are buffered
HasRoom(q) == Len(q) < ChannelCapacity

\* mutant: a clone of tx is never dropped
SendersAlive_Leak ==
    {0} \cup {p \in 1..Len(paths) : input_threads[p].pc = "lines"}

\* the owners of tx and of its clones: read_input_data (0) until it returns
\* or unwinds, and every spawned reader task until it ends
SendersAlive ==
    {p \in {0} : input_th.pc \notin {"idle", "done", "panicked"}}
        \cup {p \in 1..Len(paths) :
                 input_threads[p].pc \notin {"unspawned", "done", "panicked"}}

\* rx.recv() returns None: the buffer is empty and every sender is dropped
NoMoreGroups == queue = <<>> /\ SendersAlive = {}

(***************************************************************************)
(* read_input_data and its reader tasks                                    *)
(***************************************************************************)
\* mutant: cur_group_samples is shared by the reader tasks
LoopState_Shared(p) == [input_threads[p].st EXCEPT !.cur = input_threads[1].st.cur]

\* sample_group_identifier and cur_group_samples are locals of the task
LoopState(p) == input_threads[p].st

\* for (idx, entry) in files: tokio::spawn of the reader task of file k
SpawnTask ==
    /\ RuntimeUp
    /\ input_th.pc = "spawn"
    /\ IF input_th.k <= Len(paths)
       THEN /\ input_threads' = [input_threads EXCEPT ![input_th.k].pc = "lines"]
            /\ input_th' = [input_th EXCEPT !.k = @ + 1]
       ELSE /\ input_th' = [pc |-> "join", k |-> 1]
            /\ UNCHANGED input_threads
    /\ UNCHANGED <<paths, num_threads, queue, rx_done, in_progress, writing, file, blocks,
                   dropped, failed, mpc, gvars, wvars, cvars, kvars, lvars>>

\* for input_thread in input_threads { input_thread.await.unwrap(); }
JoinTask ==
    /\ RuntimeUp
    /\ input_th.pc = "join"
    /\ IF input_th.k > Len(paths)
       THEN input_th' = [input_th EXCEPT !.pc = "done"]
       ELSE /\ input_threads[input_th.k].pc \in {"done", "panicked"}
            /\ input_th' = IF input_threads[input_th.k].pc = "done"
                           THEN [input_th EXCEPT !.k = @ + 1]
                           ELSE [input_th EXCEPT !.pc = "panicked"]
    /\ UNCHANGED <<paths, num_threads, input_threads, queue, rx_done, in_progress, writing,
                   file, blocks, dropped, failed, mpc, gvars, wvars, cvars, kvars, lvars>>

\* the next line of file p is a record that closes the current group
AtBoundary(p) ==
    /\ input_threads[p].pos < Len(paths[p])
    /\ LET line == paths[p][input_threads[p].pos + 1]
       IN  /\ Decodable(line)
           /\ IsBoundary(JsonSample(line).repo, LoopState(p).ident, LoopState(p).cur)

\* one iteration of `for line in lines`.  At a boundary it sends the current
\* group, match tx.send(cur_group_samples).await { Ok(_) => {} Err(e) =>
\* error!(..) }: the task waits while the channel is full, and the group is
\* lost when the receiver is gone.
LoopIteration(p, after) ==
    /\ RuntimeUp
    /\ input_threads[p].pc = "lines"
    /\ input_threads[p].pos < Len(paths[p])
    /\ LET line == paths[p][input_threads[p].pos + 1]
           st   == LoopState(p)
       IN  /\ input_threads' = [input_threads EXCEPT ![p].st = ReaderStep(st, line),
                                                     ![p].pos = @ + 1,
                                                     ![p].pc = after]
           /\ IF AtBoundary(p)
              THEN IF RxDropped
                   THEN /\ dropped' = dropped \cup {st.cur}
                        /\ UNCHANGED queue
                   ELSE /\ HasRoom(queue)
                        /\ queue' = Append(queue, st.cur)
                        /\ UNCHANGED dropped
              ELSE UNCHANGED <<queue, dropped>>
    /\ UNCHANGED <<paths, num_threads, input_th, rx_done, in_progress, writing, file,
                   blocks, failed, mpc, gvars, wvars, cvars, kvars, lvars>>

\* the iteration as one step of the task, its progress report included
TaskReadLine(p) == LoopIteration(p, "lines")

\* the end of the loop: if !cur_group_samples.is_empty() {
\* tx.send(cur_group_samples).await.unwrap(); }, and the end of the task
TaskFlush(p) ==
    /\ RuntimeUp
    /\ input_threads[p].pc = "lines"
    /\ input_threads[p].pos = Len(paths[p])
    /\ LET st == LoopState(p)
       IN  IF st.cur = <<>>
           THEN /\ input_threads' = [input_threads EXCEPT ![p].pc = "done"]
                /\ UNCHANGED <<queue, dropped>>
           ELSE IF RxDropped
                THEN /\ input_threads' = [input_threads EXCEPT ![p].st = FinalFlush(st),
                                                               ![p].pc = "panicked"]
                     /\ dropped' = dropped \cup {st.cur}
                     /\ UNCHANGED queue
                ELSE /\ HasRoom(queue)
                     /\ input_threads' = [input_threads EXCEPT ![p].st = FinalFlush(st),
                                                               ![p].pc = "done"]
                     /\ queue' = Append(queue, st.cur)
                     /\ UNCHANGED dropped
    /\ UNCHANGED <<paths, num_threads, input_th, rx_done, in_progress, writing, file,
                   blocks, failed, mpc, gvars, wvars, cvars, kvars, lvars>>

(***************************************************************************)
(* run_preprocessing                                                       *)
(***************************************************************************)
\* mutant: the stream is polled while a block is still being appended
ForEachIdle_Always == TRUE

\* for_each polls the stream only when the future of its closure has finished
ForEachIdle == writing = <<>>

\* mutant: the failure is swallowed and the stream goes on
OnParseFailure_Skip == "stream"

\* parser.parse(code, None).unwrap() panics in the task that polls the worker
\* future, which is run_preprocessing
OnParseFailure == "panicked"

\* mutant: the stream ends while worker futures are still pending
Drained_Skip == TRUE

\* buffer_unordered returns None only when no worker future is left
Drained == in_progress = {}

\* mutant: the stream is polled whatever the number of pending futures
HasSlot_Always == TRUE

\* buffer_unordered(num_threads) polls rx_stream for a further future only
\* while it holds fewer than num_threads of them
HasSlot == Cardinality(in_progress) < num_threads

\* rx.recv() yields a group to buffer_unordered
RecvGroup ==
    /\ mpc = "stream"
    /\ ForEachIdle
    /\ ~rx_done
    /\ HasSlot
    /\ queue # <<>>
    /\ in_progress' = in_progress \cup {Head(queue)}
    /\ queue' = Tail(queue)
    /\ UNCHANGED <<paths, num_threads, input_threads, input_th, rx_done, writing, file,
                   blocks, dropped, failed, mpc, gvars, wvars, cvars, kvars, lvars>>

\* rx.recv() returns None and rx_stream ends
RecvNone ==
    /\ mpc = "stream"
    /\ ForEachIdle
    /\ ~rx_done
    /\ HasSlot
    /\ NoMoreGroups
    /\ rx_done' = TRUE
    /\ UNCHANGED <<paths, num_threads, input_threads, input_th, queue, in_progress, writing,
                   file, blocks, dropped, failed, mpc, gvars, wvars, cvars, kvars, lvars>>

\* the worker future of group g: process_grouped_samples and the masking map;
\* the block goes to the closure of for_each
ProcessOk(g) ==
    /\ mpc = "stream"
    /\ ForEachIdle
    /\ g \in in_progress
    /\ \E r \in MapResults(g, 1) :
          LET res == Concat(r)
              blk == [k \in 1..Len(res) |-> ToCallJsonSample(res[k])]
          IN  /\ blocks' = blocks (+) SetToBag({[group |-> g, samples |-> res, out |-> blk]})
              /\ writing' = blk
    /\ in_progress' = in_progress \ {g}
    /\ UNCHANGED <<paths, num_threads, input_threads, input_th, queue, rx_done, file,
                   dropped, failed, mpc, gvars, wvars, cvars, kvars, lvars>>

\* the parse of a record of group g fails (match_call.rs:241-242)
ProcessPanic(g) ==
    /\ mpc = "stream"
    /\ ForEachIdle
    /\ g \in in_progress
    /\ failed' = failed \cup {g}
    /\ in_progress' = in_progress \ {g}
    /\ mpc' = OnParseFailure
    /\ UNCHANGED <<paths, num_threads, input_threads, input_th, queue, rx_done, writing,
                   file, blocks, dropped, gvars, wvars, cvars, kvars, lvars>>

\* one iteration of the loop of append_jsonl_to_file (lib.rs:73-77)
WriteRecord ==
    /\ mpc = "stream"
    /\ writing # <<>>
    /\ file' = Append(file, Head(writing))
    /\ writing' = Tail(writing)
    /\ UNCHANGED <<paths, num_threads, input_threads, input_th, queue, rx_done, in_progress,
                   blocks, dropped, failed, mpc, gvars, wvars, cvars, kvars, lvars>>

\* buffer_unordered returns None, for_each completes
StreamEnd ==
    /\ mpc = "stream"
    /\ ForEachIdle
    /\ rx_done
    /\ Drained
    /\ mpc' = "join"
    /\ UNCHANGED <<paths, num_threads, input_threads, input_th, queue, rx_done, in_progress,
                   writing, file, blocks, dropped, failed, gvars, wvars, cvars, kvars, lvars>>

\* input_th.await.unwrap()
JoinInput ==
    /\ mpc = "join"
    /\ input_th.pc \in {"done", "panicked"}
    /\ mpc' = IF input_th.pc = "done" THEN "returned" ELSE "panicked"
    /\ UNCHANGED <<paths, num_threads, input_threads, input_th, queue, rx_done, in_progress,
                   writing, file, blocks, dropped, failed, gvars, wvars, cvars, kvars, lvars>>

\* main unwinds: the runtime is dropped and the process exits
Exit ==
    /\ mpc = "panicked"
    /\ mpc' = "exited"
    /\ UNCHANGED <<paths, num_threads, input_threads, input_th, queue, rx_done, in_progress,
                   writing, file, blocks, dropped, failed, gvars, wvars, cvars, kvars, lvars>>

\* the steps of a run in which nothing fails
NextRun ==
    \/ SpawnTask
    \/ JoinTask
    \/ \E p \in 1..Len(paths) : TaskReadLine(p)
    \/ \E p \in 1..Len(paths) : TaskFlush(p)
    \/ RecvGroup
    \/ RecvNone
    \/ \E g \in in_progress : ProcessOk(g)
    \/ WriteRecord
    \/ StreamEnd
    \/ JoinInput

NextPipeline ==
    \/ NextRun
    \/ \E g \in in_progress : ProcessPanic(g)
    \/ Exit

SpecPipeline == InitPipeline /\ [][NextPipeline]_vars

\* a failure-free run on a file that can fill the channel
SpecQueue == InitQueue /\ [][NextRun]_vars

\* the tokio runtime keeps polling while some task is ready to run.  This is
\* weaker than fairness to each task, which the scheduler also provides.
Fairness == WF_vars(NextRun)

\* failure-free runs, on a directory of files or on one long file, under fair
\* scheduling
SpecLive == (InitPipeline \/ InitQueue) /\ [][NextRun]_vars /\ Fairness

(***************************************************************************)
(* The PROGRESS mutex and the mutex of the output file                     *)
(*                                                                         *)
(* Each use of PROGRESS is one statement, PROGRESS.lock().await.f(..): the *)
(* task waits for the mutex, runs f while it owns the guard and drops the  *)
(* guard at the end of the statement.  Here the wait and the drop are      *)
(* steps of their own.  The position of a task is "bar" or "inc" while it  *)
(* waits for the mutex and "bar_held" or "inc_held" while it owns the      *)
(* guard; read_input_data is 0 and the reader task of file p is p.         *)
(***************************************************************************)
MaxLockLines == 2

\* the MutexGuard is a temporary: it is dropped at the end of the statement
Unlock(owner) == <<>>

\* file.lock().await is taken by the closure of for_each for one call of
\* append_jsonl_to_file (match_call.rs:141-143)
FileLockHeld == writing # <<>>

InitLockRun(dir, n) ==
    /\ paths = dir
    /\ num_threads = n
    /\ input_threads = [p \in 1..Len(dir) |-> NewTask]
    /\ input_th = [pc |-> "bar", k |-> 1]
    /\ PROGRESS = <<>>
    /\ queue = <<>>
    /\ rx_done = FALSE
    /\ in_progress = {}
    /\ writing = <<>>
    /\ file = <<>>
    /\ blocks = EmptyBag
    /\ dropped = {}
    /\ failed = {}
    /\ mpc = "stream"
    /\ ReaderIdle
    /\ WorkerIdle
    /\ ScanIdle
    /\ LegacyIdle

\* one file that can fill the channel, or two short files whose tasks contend
\* for PROGRESS; args.threads is a usize that main passes on as it is
InitLocks ==
    \E n \in 0..MaxThreads :
        \/ InitLockRun(<<LongFile(1, MaxLongLines)>>, n)
        \/ \E a \in 1..MaxLockLines : InitLockRun(<<LongFile(1, a), LongFile(2, 1)>>, n)

\* PROGRESS.lock().await of read_input_data returns (match_call.rs:159, 208)
InputLock ==
    /\ input_th.pc \in {"bar", "inc"}
    /\ PROGRESS = <<>>
    /\ PROGRESS' = <<0>>
    /\ input_th' = [input_th EXCEPT !.pc = IF @ = "bar" THEN "bar_held" ELSE "inc_held"]
    /\ UNCHANGED <<paths, num_threads, input_threads, queue, rx_done, in_progress, writing,
                   file, blocks, dropped, failed, mpc, gvars, wvars, cvars, lvars>>

\* .bar(files.len(), "Files") or .inc_and_draw(&files_bar, 1), and the drop of
\* the guard; after inc_and_draw the loop over the files goes on
InputUnlock ==
    /\ input_th.pc \in {"bar_held", "inc_held"}
    /\ PROGRESS' = Unlock(0)
    /\ input_th' = [pc |-> "spawn",
                    k  |-> IF input_th.pc = "inc_held" THEN input_th.k + 1 ELSE input_th.k]
    /\ UNCHANGED <<paths, num_threads, input_threads, queue, rx_done, in_progress, writing,
                   file, blocks, dropped, failed, mpc, gvars, wvars, cvars, lvars>>

\* tokio::spawn of the reader task of file k, whose first statement waits for
\* PROGRESS; after the last file, the loop that joins the tasks
SpawnThenInc ==
    /\ input_th.pc = "spawn"
    /\ IF input_th.k <= Len(paths)
       THEN /\ input_threads' = [input_threads EXCEPT ![input_th.k].pc = "bar"]
            /\ input_th' = [input_th EXCEPT !.pc = "inc"]
       ELSE /\ input_th' = [pc |-> "join", k |-> 1]
            /\ UNCHANGED input_threads
    /\ UNCHANGED <<paths, num_threads, queue, rx_done, in_progress, writing, file, blocks,
                   dropped, failed, mpc, gvars, wvars, cvars, kvars, lvars>>

\* PROGRESS.lock().await of the reader task of file p returns
\* (match_call.rs:168, 198)
TaskLock(p) ==
    /\ input_threads[p].pc \in {"bar", "inc"}
    /\ PROGRESS = <<>>
    /\ PROGRESS' = <<p>>
    /\ input_threads' = [input_threads EXCEPT
                            ![p].pc = IF @ = "bar" THEN "bar_held" ELSE "inc_held"]
    /\ UNCHANGED <<paths, num_threads, input_th, queue, rx_done, in_progress, writing,
                   file, blocks, dropped, failed, mpc, gvars, wvars, cvars, lvars>>

\* .bar(read_lines(&file_path).unwrap().count(), ..) or .inc_and_draw(&bar, 1),
\* and the drop of the guard: the task is at the head of `for line in lines`
TaskUnlock(p) ==
    /\ input_threads[p].pc \in {"bar_held", "inc_held"}
    /\ PROGRESS' = Unlock(p)
    /\ input_threads' = [input_threads EXCEPT ![p].pc = "lines"]
    /\ UNCHANGED <<paths, num_threads, input_th, queue, rx_done, in_progress, writing,
                   file, blocks, dropped, failed, mpc, gvars, wvars, cvars, lvars>>

\* the body of the loop up to the progress report, for which the task then
\* waits for PROGRESS
TaskBody(p) == LoopIteration(p, "inc")

NextLocks ==
    \/ InputLock
    \/ InputUnlock
    \/ SpawnThenInc
    \/ JoinTask
    \/ \E p \in 1..Len(paths) : TaskLock(p)
    \/ \E p \in 1..Len(paths) : TaskUnlock(p)
    \/ \E p \in 1..Len(paths) : TaskBody(p)
    \/ \E p \in 1..Len(paths) : TaskFlush(p)
    \/ RecvGroup
    \/ RecvNone
    \/ \E g \in in_progress : ProcessOk(g)
    \/ WriteRecord
    \/ StreamEnd
    \/ JoinInput

\* failure-free runs with the mutexes, under fair scheduling
SpecLocks == InitLocks /\ [][NextLocks]_vars /\ WF_vars(NextLocks)

(***************************************************************************)
(* Claims about the pipeline (SpecPipeline, SpecQueue)                     *)
(***************************************************************************)
Blocks == BagToSet(blocks)

\* rec is a record of group
Member(rec, group) == \E i \in 1..Len(group) : group[i] = rec

\* C11: call resolution is intra-group only.  In every processed group the
\* caller and the callee of every pair are records of that group, every record
\* appended to the output pairs two records of one processed group, and a name
\* called by a record that no other record of its group carries yields no
\* positive pair for that record, whatever the other groups hold.
C11_IntraGroupOnly ==
    /\ \A b \in Blocks :
          /\ \A k \in 1..Len(b.samples) :
                Member(b.samples[k][1], b.group) /\ Member(b.samples[k][2], b.group)
          /\ \A i \in 1..Len(b.group) : \A name \in CalledNames(b.group[i]) :
                (\A j \in 1..Len(b.group) : j # i => b.group[j].func_name # name)
                => ~\E k \in 1..Len(b.samples) :
                       /\ b.samples[k][1] = b.group[i]
                       /\ b.samples[k][3]
                       /\ b.samples[k][2].func_name = name
    /\ \A r \in 1..Len(file) : \E b \in Blocks : \E i, j \in 1..Len(b.group) :
          /\ b.group[i].docstring = file[r].caller_comm
          /\ b.group[j].docstring = file[r].callee_comm

\* the run has returned; a record that follows a repo change in its file calls
\* a name carried by a record of the file's previous group, and yields no pair
C11_Witness ==
    /\ mpc = "returned"
    /\ \E b, c \in Blocks : \E i \in 1..Len(b.group) : \E j \in 1..Len(c.group) :
          /\ b.group # c.group
          /\ b.group[i].docstring[1] = c.group[j].docstring[1]
          /\ b.group[i].repo # c.group[j].repo
          /\ c.group[j].func_name \in CalledNames(b.group[i])
          /\ \A k \in 1..Len(b.group) : b.group[k].func_name # c.group[j].func_name
          /\ b.samples = <<>>
    /\ file # <<>>

\* the groups the reader tasks have handed to tx.send
SentGroups ==
    UNION { {input_threads[p].st.sent[k] : k \in 1..Len(input_threads[p].st.sent)} :
              p \in 1..Len(paths) }

\* the groups that are buffered, held by buffer_unordered or processed
Received ==
    {queue[k] : k \in 1..Len(queue)} \cup in_progress \cup {b.group : b \in Blocks}

\* the next step of reader task p is a tx.send
Sending(p) ==
    /\ input_threads[p].pc = "lines"
    /\ \/ AtBoundary(p)
       \/ input_threads[p].pos = Len(paths[p]) /\ LoopState(p).cur # <<>>

\* C12: the channel never buffers more than 10 groups; while 10 groups are
\* buffered a reader task that waits in tx.send makes no step, and none enters
\* the buffer, until the consumer has taken a group; no group is lost: every
\* group handed to tx.send is buffered, in progress or processed, once.
C12_BoundedQueue ==
    /\ [](/\ Len(queue) <= ChannelCapacity
          /\ dropped = {}
          /\ SentGroups = Received
          /\ Cardinality(SentGroups)
               = Len(queue) + Cardinality(in_progress) + BagCardinality(blocks))
    /\ [][Len(queue) = ChannelCapacity =>
             /\ Len(queue') <= Len(queue)
             /\ \A p \in 1..Len(paths) :
                   Sending(p) => input_threads'[p] = input_threads[p]]_vars

\* ten groups are buffered and the reader task waits in the send of an eleventh
C12_Witness ==
    /\ Len(queue) = ChannelCapacity
    /\ \E p \in 1..Len(paths) :
          /\ AtBoundary(p)
          /\ ~Member(input_threads[p].st.cur, queue)

\* the records of block occur in text as one contiguous run
Contiguous(block, text) ==
    \E start \in 0..(Len(text) - Len(block)) :
        SubSeq(text, start + 1, start + Len(block)) = block

RECURSIVE TotalLen(_)
TotalLen(bs) ==
    IF bs = {} THEN 0
    ELSE LET b == CHOOSE x \in bs : TRUE IN Len(b.out) + TotalLen(bs \ {b})

\* C13: the output has a single appender at any time and a group's records are
\* appended as one contiguous block.  The file changes only by the append of
\* the next record of the one block being written; the file followed by the
\* records still to be written consists of the blocks of the processed groups,
\* each as one contiguous run, and of nothing else.
C13_BlocksContiguous ==
    /\ [](/\ \A b \in Blocks : Contiguous(b.out, file \o writing)
          /\ Len(file) + Len(writing) = TotalLen(Blocks))
    /\ [][file' # file => /\ writing # <<>>
                          /\ file' = Append(file, Head(writing))
                          /\ writing' = Tail(writing)]_vars

\* the run has returned with the blocks of two groups of two records each in
\* the file, taken from the channel while two reader tasks were sending
C13_Witness ==
    /\ mpc = "returned"
    /\ num_threads >= 2
    /\ \E b, c \in Blocks :
          /\ b # c
          /\ Len(b.out) >= 2 /\ Len(c.out) >= 2
          /\ b.group[1].docstring[1] # c.group[1].docstring[1]
    /\ Len(file) >= 4

\* C14: when run_preprocessing has returned, the channel is empty, no group
\* is in progress and no record is waiting to be written; every reader task
\* has ended and every group handed to tx.send has been processed exactly
\* once, with all the records of its block in the file.
C14_AllGroupsAppendedOnce ==
    mpc = "returned" =>
        /\ queue = <<>> /\ in_progress = {} /\ writing = <<>>
        /\ \A p \in 1..Len(paths) : input_threads[p].pc = "done"
        /\ dropped = {}
        /\ \A g \in SentGroups :
              /\ Cardinality({b \in Blocks : b.group = g}) = 1
              /\ \A b \in Blocks : b.group = g =>
                    CopiesIn(b, blocks) = 1 /\ Contiguous(b.out, file)
        /\ \A b \in Blocks : b.group \in SentGroups
        /\ Len(file) = TotalLen(Blocks)

\* a run over two files has returned after processing at least three groups,
\* with up to two groups in progress at a time
C14_Witness ==
    /\ mpc = "returned"
    /\ num_threads >= 2
    /\ Len(paths) >= 2
    /\ Cardinality(SentGroups) >= 3
    /\ \A p \in 1..Len(paths) : input_threads[p].st.sent # <<>>
    /\ file # <<>>

\* C15: for a finite input and num_threads >= 1, a run in which nothing fails
\* terminates under fair scheduling: every reader task ends and drops its
\* sender, the channel drains, the stream ends and run_preprocessing returns.
C15_Terminates == <>(mpc = "returned")

\* run_preprocessing has returned after a reader task had to wait for a free
\* slot of the channel: the file holds more groups than the channel buffers
C15_Witness ==
    /\ mpc = "returned"
    /\ input_th.pc = "done"
    /\ BagCardinality(blocks) > ChannelCapacity
    /\ rx_done

\* C16: a failed send never aborts the reader task that performs it, be it the
\* send at a repo boundary or the send of the last group at the end of the
\* file: no reader task ends by a panic.
C16_SendFailureTolerated ==
    \A p \in 1..Len(paths) : input_threads[p].pc # "panicked"

\* the records of the groups whose processing panicked
FailedIds == UNION { {g[i].docstring : i \in 1..Len(g)} : g \in failed }

\* C17: a parse failure on a record of a group is fatal for the run with no
\* partial-group output.  No pair of the failed group is in the file or waiting
\* to be written, the group is not among the processed groups, the run never
\* returns, and after the failure nothing more is processed or appended.
C17_ParseFailureFatal ==
    /\ [](failed # {} =>
            /\ mpc \in {"panicked", "exited"}
            /\ \A b \in Blocks : b.group \notin failed
            /\ \A r \in 1..Len(file \o writing) :
                  (file \o writing)[r].caller_comm \notin FailedIds)
    /\ [][failed # {} => file' = file /\ blocks' = blocks /\ writing' = writing]_vars

\* the process has exited after the parse failure of a group of two records
\* that call each other: the file is empty, and a later group was buffered, in
\* progress, or sent in vain
C17_Witness ==
    /\ mpc = "exited"
    /\ \E g \in failed : Len(g) >= 2
    /\ file = <<>>
    /\ (queue # <<>> \/ in_progress # {} \/ dropped # {})

\* the groups the reader loop forms from a file, whatever the schedule
GroupsOf(lns) == FinalFlush(RunReader(ReaderInit, lns)).sent

IsPrefix(a, b) == Len(a) <= Len(b) /\ SubSeq(b, 1, Len(a)) = a

\* C18: grouping is deterministic.  However the tasks interleave, the groups a
\* reader task has handed to tx.send are a prefix of the groups that reading
\* its file alone yields, and all of them once the task has ended; every group
\* that arrives at the channel is one of these groups; when the run has
\* returned, the processed groups are exactly the groups of the files.
C18_GroupingDeterministic ==
    /\ \A p \in 1..Len(paths) :
          /\ IsPrefix(input_threads[p].st.sent, GroupsOf(paths[p]))
          /\ input_threads[p].pc \in {"done", "panicked"} =>
                input_threads[p].st.sent = GroupsOf(paths[p])
    /\ \A g \in Received : \E p \in 1..Len(paths) : Member(g, GroupsOf(paths[p]))
    /\ mpc = "returned" =>
          {b.group : b \in Blocks}
            = UNION { {GroupsOf(paths[p])[k] : k \in 1..Len(GroupsOf(paths[p]))} :
                        p \in 1..Len(paths) }

\* two reader tasks have each formed a group, and the group of the second file
\* has arrived at the channel before a group of the first file
C18_Witness ==
    /\ Len(queue) >= 2
    /\ queue[1][1].docstring[1] = 2
    /\ queue[2][1].docstring[1] = 1
    /\ input_threads[1].st.sent # <<>>
    /\ Len(paths[1]) >= 3

\* C22: worker parallelism is bounded by num_threads.  At most num_threads
\* groups are held by worker futures at any time; a group is taken from the
\* channel only while fewer than num_threads are held, and it is the head of
\* the channel; a group that was taken is held by one worker future until it
\* is processed, and is processed once: it is never both held and processed,
\* never processed twice, and leaves the held groups only by being processed.
C22_BoundedWorkers ==
    /\ [](/\ Cardinality(in_progress) <= num_threads
          /\ \A b \in Blocks : CopiesIn(b, blocks) = 1 /\ b.group \notin in_progress
          /\ \A b, c \in Blocks : b.group = c.group => b = c
          /\ \A k \in 1..Len(queue) : queue[k] \notin in_progress)
    /\ [][/\ in_progress' \ in_progress # {} =>
                /\ Cardinality(in_progress) < num_threads
                /\ queue # <<>>
                /\ in_progress' = in_progress \cup {Head(queue)}
                /\ queue' = Tail(queue)
          /\ \A g \in in_progress \ in_progress' :
                /\ ~\E b \in Blocks : b.group = g
                /\ \E b \in BagToSet(blocks') : b.group = g
                /\ in_progress' = in_progress \ {g}]_vars

\* num_threads = 2 groups are held by worker futures and a third group waits
\* in the channel
C22_Witness ==
    /\ num_threads = 2
    /\ Cardinality(in_progress) = 2
    /\ queue # <<>>
    /\ mpc = "stream"

\* every record of group was read from file p
FromFile(group, p) == \A i \in 1..Len(group) : group[i].docstring[1] = p

\* C25: the boundary state is per reader task.  The identifier and the partial
\* group of the task of file p change only in a step in which that task
\* consumes a line of file p; the partial group and the groups sent by the
\* task hold records of file p only, and every group that is buffered, in
\* progress, processed, lost or failed holds records of a single file.
C25_StatePerFile ==
    /\ [](/\ \A p \in 1..Len(paths) :
                /\ FromFile(input_threads[p].st.cur, p)
                /\ \A k \in 1..Len(input_threads[p].st.sent) :
                      FromFile(input_threads[p].st.sent[k], p)
          /\ \A g \in Received \cup dropped \cup failed :
                \E p \in 1..Len(paths) : FromFile(g, p))
    /\ [][\A p \in 1..Len(paths) :
             input_threads'[p].st # input_threads[p].st =>
                /\ input_threads[p].pc = "lines"
                /\ \/ input_threads'[p].pos = input_threads[p].pos + 1
                   \/ input_threads[p].pos = Len(paths[p])
                /\ \A q \in 1..Len(paths) :
                      q # p => input_threads'[q] = input_threads[q]]_vars

\* the task of file 1 is in the middle of its first group while a group of
\* file 2 with the same repo is already buffered in the channel
C25_Witness ==
    /\ Len(paths) = 2
    /\ input_threads[1].pc = "lines"
    /\ input_threads[1].st.sent = <<>>
    /\ input_threads[1].st.cur # <<>>
    /\ input_threads[1].pos < Len(paths[1])
    /\ \E k \in 1..Len(queue) :
          /\ FromFile(queue[k], 2)
          /\ queue[k][1].repo = input_threads[1].st.cur[1].repo

\* input is unread, or a group is held by a reader task, buffered, in
\* progress or not yet written
WorkLeft ==
    \/ \E p \in 1..Len(paths) :
          /\ input_threads[p].pc \notin {"done", "panicked"}
          /\ input_threads[p].pos < Len(paths[p]) \/ input_threads[p].st.cur # <<>>
    \/ queue # <<>>
    \/ in_progress # {}
    \/ writing # <<>>

\* reader task p is suspended in tx.send: the channel is full
SendBlocked(p) == Sending(p) /\ ~HasRoom(queue)

\* run_preprocessing is suspended in rx.recv(): nothing is buffered, nothing
\* is in progress and a sender is alive
RecvBlocked ==
    /\ mpc = "stream"
    /\ ~rx_done
    /\ queue = <<>>
    /\ in_progress = {}
    /\ writing = <<>>
    /\ SendersAlive # {}

\* C26: the pipeline does not deadlock.  Until run_preprocessing has returned
\* some task can take a step, and it has not returned while work is left.  The
\* guard of PROGRESS is owned only inside the statement that took it, so a task
\* that waits in tx.send, at the head of its loop or in a join does not own
\* it, and the task that owns it can always go on; run_preprocessing never owns
\* it and does not hold the lock of the output file while it waits in
\* rx.recv().  A group leaves the channel only by rx.recv(), and a reader task
\* suspended in tx.send on a full channel is eventually released by it.
C26_DeadlockFree ==
    /\ [](/\ mpc # "returned" => ENABLED NextLocks
          /\ WorkLeft => mpc \notin {"join", "returned"}
          /\ \A p \in 1..Len(paths) :
                /\ PROGRESS = <<p>> <=> input_threads[p].pc \in {"bar_held", "inc_held"}
                /\ SendBlocked(p) => PROGRESS # <<p>>
          /\ PROGRESS = <<0>> <=> input_th.pc \in {"bar_held", "inc_held"}
          /\ PROGRESS # <<>> => ENABLED (InputUnlock \/ \E p \in 1..Len(paths) : TaskUnlock(p))
          /\ RecvBlocked => ~FileLockHeld)
    /\ [][Len(queue') < Len(queue) =>
             queue' = Tail(queue) /\ in_progress' = in_progress \cup {Head(queue)}]_vars
    /\ ((\E p \in 1..Len(paths) : SendBlocked(p)) ~> HasRoom(queue))

(***************************************************************************)
(* The single-file pipeline: process_func_call_comm (main.rs:211-269)      *)
(*                                                                         *)
(* A source file is given by the matches of SEXP_FUNC_COMM in it, one per  *)
(* commented function definition, in the order of the file.  A match holds *)
(* the captured name, the comment as the "comment" arm builds it, the text *)
(* of the function_definition node and the names called in its body.       *)
(***************************************************************************)
MaxDefs == 3

\* for _ in 0..3 (main.rs:240)
Attempts == 3

LegacyNames == {<<"f">>, <<"g">>}

\* the names called in a function body, in the order of the calls
LegacyBodies == {<<>>, << <<"f">> >>, << <<"g">> >>, << <<"f">>, <<"g">> >>}

\* the text of a function definition whose body is the calls of body
FuncSrc(name, body) ==
    name \o <<"(", ")", "{">>
         \o Concat([k \in 1..Len(body) |-> body[k] \o <<"(", ")", ";">>]) \o <<"}">>

\* the files of n definitions; the comment of the i-th names its position
SourceFiles(n) ==
    {[i \in 1..n |-> [name     |-> shape[i][1],
                      comment  |-> <<i>>,
                      func_src |-> FuncSrc(shape[i][1], shape[i][2]),
                      calls    |-> shape[i][2]]] :
        shape \in [1..n -> LegacyNames \X LegacyBodies]}

InitLegacy ==
    /\ \E n \in 0..MaxDefs : fc_matches \in SourceFiles(n)
    /\ fc_pos = 0
    /\ func_comments = <<>>
    /\ func_code = <<>>
    /\ dup_funcs = {}
    /\ calling_pairs = {}
    /\ pending = {}
    /\ samples_set = {}
    /\ lpc = "comments"
    /\ ReaderIdle
    /\ WorkerIdle
    /\ PipelineIdle
    /\ ScanIdle
    /\ LockIdle

\* HashMap::insert
MapInsert(map, key, value) ==
    [k \in (DOMAIN map) \cup {key} |-> IF k = key THEN value ELSE map[k]]

\* HashMap::remove
MapRemove(map, key) == [k \in (DOMAIN map) \ {key} |-> map[k]]

\* the "name" arm (main.rs:119-128): `continue` leaves the arm, not the match
NameArm(comments, dups, name) ==
    IF name \in dups THEN [func_comments |-> comments, dup_funcs |-> dups]
    ELSE IF name \in DOMAIN comments
         THEN [func_comments |-> MapRemove(comments, name), dup_funcs |-> dups \cup {name}]
         ELSE [func_comments |-> comments, dup_funcs |-> dups]

\* one iteration of `for m in matches` of find_function_comments: the arms of
\* the captures, then the two inserts at main.rs:150-151
FindCommentsStep ==
    /\ lpc = "comments"
    /\ fc_pos < Len(fc_matches)
    /\ LET m     == fc_matches[fc_pos + 1]
           named == NameArm(func_comments, dup_funcs, m.name)
       IN  /\ dup_funcs' = named.dup_funcs
           /\ func_comments' = MapInsert(named.func_comments, m.name, m.comment)
           /\ func_code' = MapInsert(func_code, m.name, m.func_src)
    /\ fc_pos' = fc_pos + 1
    /\ UNCHANGED <<fc_matches, calling_pairs, pending, samples_set, lpc,
                   gvars, wvars, pvars, cvars, kvars>>

\* find_function_calls (main.rs:54-96): a call whose name func_validate_fn
\* accepts, paired with the name of the function definition around it
FindCallingPairs ==
    /\ lpc = "comments"
    /\ fc_pos = Len(fc_matches)
    /\ calling_pairs' =
          {pr \in {fc_matches[i].name : i \in 1..Len(fc_matches)} \X (DOMAIN func_comments) :
              \E i \in 1..Len(fc_matches) :
                  /\ fc_matches[i].name = pr[1]
                  /\ \E k \in 1..Len(fc_matches[i].calls) : fc_matches[i].calls[k] = pr[2]}
    /\ pending' = calling_pairs'
    /\ lpc' = "pairs"
    /\ UNCHANGED <<fc_matches, fc_pos, func_comments, func_code, dup_funcs, samples_set,
                   gvars, wvars, pvars, cvars, kvars>>

\* str::replace(callee, FUNC_CALL_ID_MASK): every occurrence, left to right
RECURSIVE StrReplace(_, _)
StrReplace(text, pat) ==
    IF Len(text) < Len(pat) THEN text
    ELSE IF SubSeq(text, 1, Len(pat)) = pat
         THEN FUNC_CALL_ID_MASK \o StrReplace(SubSeq(text, Len(pat) + 1, Len(text)), pat)
         ELSE <<Head(text)>> \o StrReplace(Tail(text), pat)

\* the three attempts at a negative sample (main.rs:240-261): draws[k] is the
\* key keys().nth(rand_idx) of attempt k; the first draw that caller does not
\* call gives the sample
NegativeSample(caller, masked_caller_code, draws) ==
    LET ok == {k \in 1..Attempts : <<caller, draws[k]>> \notin calling_pairs}
    IN  IF ok = {} THEN {}
        ELSE LET rand_callee_name == draws[CHOOSE k \in ok : \A j \in ok : k <= j]
             IN  {[caller_src |-> masked_caller_code,
                   caller_com |-> func_comments[caller],
                   callee_src |-> func_code[rand_callee_name],
                   callee_com |-> func_comments[rand_callee_name],
                   label      |-> FALSE]}

\* one iteration of `for (caller, callee) in &calling_pairs`, in the order of
\* the HashSet
GenSamples ==
    /\ lpc = "pairs"
    /\ \E pr \in pending :
          LET caller == pr[1]
              callee == pr[2]
          IN  /\ pending' = pending \ {pr}
              /\ IF caller \in DOMAIN func_comments /\ callee \in DOMAIN func_comments
                 THEN LET masked_caller_code == StrReplace(func_code[caller], callee)
                      IN  \E draws \in [1..Attempts -> DOMAIN func_comments] :
                             samples_set' = samples_set
                                \cup {[caller_src |-> masked_caller_code,
                                       caller_com |-> func_comments[caller],
                                       callee_src |-> func_code[callee],
                                       callee_com |-> func_comments[callee],
                                       label      |-> TRUE]}
                                \cup NegativeSample(caller, masked_caller_code, draws)
                 ELSE UNCHANGED samples_set
    /\ UNCHANGED <<fc_matches, fc_pos, func_comments, func_code, dup_funcs, calling_pairs,
                   lpc, gvars, wvars, pvars, cvars, kvars>>

\* samples.into_iter().collect()
LegacyReturn ==
    /\ lpc = "pairs"
    /\ pending = {}
    /\ lpc' = "done"
    /\ UNCHANGED <<fc_matches, fc_pos, func_comments, func_code, dup_funcs, calling_pairs,
                   pending, samples_set, gvars, wvars, pvars, cvars, kvars>>

NextLegacy == FindCommentsStep \/ FindCallingPairs \/ GenSamples \/ LegacyReturn

SpecLegacy == InitLegacy /\ [][NextLegacy]_vars

\* the names captured by more than one match of the file
Duplicated ==
    {fc_matches[i].name : i \in 1..Len(fc_matches)} \cap
    {n \in LegacyNames : Cardinality({i \in 1..Len(fc_matches) : fc_matches[i].name = n}) >= 2}

\* the comments of the definitions named name
CommentsOf(name) ==
    {fc_matches[i].comment : i \in {j \in 1..Len(fc_matches) : fc_matches[j].name = name}}

\* C27: duplicated function names are ignored.  Once find_function_comments
\* has handled every match, a name captured by two or more matches is a key of
\* neither map it returns, and no sample has a definition of that name as its
\* caller or as its callee.
C27_DuplicatesIgnored ==
    lpc \in {"pairs", "done"} =>
        \A name \in Duplicated :
            /\ name \notin DOMAIN func_comments
            /\ name \notin DOMAIN func_code
            /\ \A s \in samples_set :
                  s.caller_com \notin CommentsOf(name) /\ s.callee_com \notin CommentsOf(name)

\* the key of func_comm_map whose comment is com
NameOf(com) == CHOOSE n \in DOMAIN func_comments : func_comments[n] = com

\* C28: masking is applied only under label = true.  The caller code of every
\* negative sample is the caller's entry in the function-code map, unmasked.
C28_NegativesUnmasked ==
    \A s \in samples_set : ~s.label => s.caller_src = func_code[NameOf(s.caller_com)]

\* C29: the caller differs from the callee in every sample, positive (also
\* with a recursive call in the file) and negative (whatever the three draws
\* are), and no negative sample pairs a caller with a function it calls.
C29_CallerNotCallee ==
    \A s \in samples_set :
        /\ NameOf(s.caller_com) # NameOf(s.callee_com)
        /\ ~s.label => <<NameOf(s.caller_com), NameOf(s.callee_com)>> \notin calling_pairs

====
